---- MODULE Spec2Model ----
(***************************************************************************)
(* Task-assignment backend (my_webapp/main.py, my_webapp/database.py).    *)
(* The state is the content of the users, tasks and announcements tables, *)
(* the response of the request handled last, the requests that are        *)
(* suspended at an await (inflight) and the tasks handed to the event     *)
(* loop with asyncio.create_task (loop).  Spec, SpecUsers and SpecList    *)
(* run every handler as one atomic action and leave the event loop out;   *)
(* SpecBroadcast, SpecAsync and SpecSignIn follow the handlers from await *)
(* to await.                                                              *)
(***************************************************************************)
EXTENDS Integers, Sequences, FiniteSets, TLC

VARIABLES users, tasks, response, announcements, inflight, loop

vars == <<users, tasks, response, announcements, inflight, loop>>

(***************************************************************************)
(* Bounds and input domains                                                *)
(***************************************************************************)
MaxTgId == 2
MaxTasks == 1

TgIds == 1..MaxTgId
Names == {"Ann", "Bob"}

(***************************************************************************)
(* database.py                                                             *)
(***************************************************************************)
NULL == "null"

OWNER == "owner"
ADMIN == "admin"
WORKER == "worker"
UserRole == {OWNER, ADMIN, WORKER}

TODO == "todo"
IN_PROGRESS == "in_progress"
DONE == "done"
DISPUTED == "disputed"
TaskStatus == {TODO, IN_PROGRESS, DONE, DISPUTED}

\* Task.deadline is a nullable DateTime; 0 stands for NULL, which SQLite
\* orders before every value.
NoDeadline == 0

\* A row of users; its id is its position in the table (autoincrement from 1).
User(telegram_id, full_name, role) ==
    [telegram_id |-> telegram_id, full_name |-> full_name, role |-> role]

\* A row of tasks as the constructor call of create_task leaves it: status,
\* dispute_reason and is_locked take the column defaults.
Task(title, description, creator_id, assignee_id, deadline) ==
    [title |-> title, description |-> description, status |-> TODO,
     dispute_reason |-> NULL, is_locked |-> FALSE,
     creator_id |-> creator_id, assignee_id |-> assignee_id,
     deadline |-> deadline]

(***************************************************************************)
(* main.py: configuration                                                  *)
(***************************************************************************)
OWNER_ID == 1
BOT_TOKEN == "bot-token"

\* No row: the id scalar_one_or_none() yields None for.
None == 0

(***************************************************************************)
(* main.py: validate_telegram_data                                         *)
(***************************************************************************)
\* hmac.new(key, msg, sha256): collision-free, so the pair itself.
hmac(key, msg) == <<key, msg>>

\* The parsed initData: the set of keys present, the user claim and the hash.
InitData(keys, user, hash) == [keys |-> keys, user |-> user, hash |-> hash]

TgUser(id, name) == [id |-> id, name |-> name]

data_check_string(init_data) ==
    IF "user" \in init_data.keys THEN << <<"user", init_data.user>> >> ELSE <<>>

Signed(user, bot_token) ==
    LET unsigned == InitData({"user", "hash"}, user, <<>>)
    IN  InitData({"user", "hash"}, user,
                 hmac(hmac("WebAppData", bot_token), data_check_string(unsigned)))

\* The variant that does not compare the signature.
validate_telegram_data_unchecked(init_data, bot_token) ==
    IF "hash" \notin init_data.keys
    THEN [ok |-> FALSE, user |-> TgUser(None, NULL)]
    ELSE IF "user" \notin init_data.keys
    THEN [ok |-> FALSE, user |-> TgUser(None, NULL)]
    ELSE [ok |-> TRUE, user |-> init_data.user]

validate_telegram_data(init_data, bot_token) ==
    IF "hash" \notin init_data.keys
    THEN [ok |-> FALSE, user |-> TgUser(None, NULL)]
    ELSE IF hmac(hmac("WebAppData", bot_token), data_check_string(init_data))
              # init_data.hash
    THEN [ok |-> FALSE, user |-> TgUser(None, NULL)]
    ELSE IF "user" \notin init_data.keys
    THEN [ok |-> FALSE, user |-> TgUser(None, NULL)]
    ELSE [ok |-> TRUE, user |-> init_data.user]

(***************************************************************************)
(* Queries                                                                 *)
(***************************************************************************)
\* select(User).where(User.telegram_id == tg_id) ... scalar_one_or_none()
UserByTelegramId(us, tg_id) ==
    LET hits == {i \in DOMAIN us : us[i].telegram_id = tg_id}
    IN  IF hits = {} THEN None ELSE CHOOSE i \in hits : TRUE

\* select(User).where(User.id == id) ... scalar_one_or_none()
UserById(us, id) == IF id \in DOMAIN us THEN id ELSE None

\* select(Task).where(Task.id == id) ... scalar_one_or_none()
TaskById(ts, id) == IF id \in DOMAIN ts THEN id ELSE None

\* What the state keeps of the request handled last: the handler and the
\* status code of its response.
Response(op, code) == [op |-> op, code |-> code]

(***************************************************************************)
(* main.py: users                                                          *)
(***************************************************************************)
\* POST /api/auth: the users table after the request, and the response.
auth_user(us, data) ==
    LET v == validate_telegram_data(data, BOT_TOKEN)
        tg_id == v.user.id
        full_name == v.user.name
        user == UserByTelegramId(us, tg_id)
        role == IF tg_id = OWNER_ID THEN OWNER ELSE WORKER
        after ==
            IF user = None
            THEN Append(us, User(tg_id, full_name, role))
            ELSE [us EXCEPT ![user] =
                    [@ EXCEPT !.full_name = full_name,
                              !.role = IF tg_id = OWNER_ID THEN OWNER ELSE @]]
        id == IF user = None THEN Len(us) + 1 ELSE user
    IN  IF ~v.ok
        THEN [code |-> 403, detail |-> "Auth failed", users |-> us, body |-> NULL]
        ELSE [code |-> 200, detail |-> NULL, users |-> after,
              body |-> [id |-> id, telegram_id |-> after[id].telegram_id,
                        role |-> after[id].role, full_name |-> after[id].full_name]]

\* The bot's /start handler: the users table after the message.
cmd_start(us, from_id, from_full_name) ==
    IF UserByTelegramId(us, from_id) = None
    THEN Append(us, User(from_id, from_full_name,
                         IF from_id = OWNER_ID THEN OWNER ELSE WORKER))
    ELSE us

\* The variant that lets the configured owner be the target.
update_user_role_any_target(us, user_id, role_data, init_data) ==
    LET v == validate_telegram_data(init_data, BOT_TOKEN)
        user == UserById(us, user_id)
    IN  IF ~v.ok
        THEN [code |-> 403, detail |-> "Auth failed", users |-> us]
        ELSE IF v.user.id # OWNER_ID
        THEN [code |-> 403, detail |-> "Only Owner", users |-> us]
        ELSE IF user = None
        THEN [code |-> 400, detail |-> NULL, users |-> us]
        ELSE [code |-> 200, detail |-> NULL,
              users |-> [us EXCEPT ![user].role = role_data]]

\* PATCH /api/users/{user_id}/role
update_user_role(us, user_id, role_data, init_data) ==
    LET v == validate_telegram_data(init_data, BOT_TOKEN)
        user == UserById(us, user_id)
    IN  IF ~v.ok
        THEN [code |-> 403, detail |-> "Auth failed", users |-> us]
        ELSE IF v.user.id # OWNER_ID
        THEN [code |-> 403, detail |-> "Only Owner", users |-> us]
        ELSE IF user = None \/ us[user].telegram_id = OWNER_ID
        THEN [code |-> 400, detail |-> NULL, users |-> us]
        ELSE [code |-> 200, detail |-> NULL,
              users |-> [us EXCEPT ![user].role = role_data]]

(***************************************************************************)
(* main.py: request bodies                                                 *)
(***************************************************************************)
\* TaskCreate
TaskCreate(title, description, assignee_id, deadline) ==
    [title |-> title, description |-> description,
     assignee_id |-> assignee_id, deadline |-> deadline]

\* TaskUpdate: `set` holds the fields the body supplies (what
\* dict(exclude_unset=True) keeps); every other field has its default, None.
TaskUpdate(set, status, title, description, deadline, dispute_reason) ==
    [set |-> set,
     status |-> IF "status" \in set THEN status ELSE NULL,
     title |-> IF "title" \in set THEN title ELSE NULL,
     description |-> IF "description" \in set THEN description ELSE NULL,
     deadline |-> IF "deadline" \in set THEN deadline ELSE NoDeadline,
     dispute_reason |-> IF "dispute_reason" \in set THEN dispute_reason ELSE NULL]

(***************************************************************************)
(* main.py: tasks                                                          *)
(***************************************************************************)
\* POST /api/tasks
create_task(us, ts, task_data, init_data) ==
    LET v == validate_telegram_data(init_data, BOT_TOKEN)
        creator == UserByTelegramId(us, v.user.id)
        task == Task(task_data.title, task_data.description, creator,
                     task_data.assignee_id, task_data.deadline)
        assignee == UserById(us, task_data.assignee_id)
    IN  IF ~v.ok
        THEN [code |-> 403, detail |-> "Auth failed", tasks |-> ts, notify |-> {}]
        ELSE IF creator = None
        THEN [code |-> 500, detail |-> NULL, tasks |-> ts, notify |-> {}]
        ELSE IF us[creator].role \notin {ADMIN, OWNER}
        THEN [code |-> 403, detail |-> NULL, tasks |-> ts, notify |-> {}]
        ELSE [code |-> 200, detail |-> NULL, tasks |-> Append(ts, task),
              notify |-> IF assignee # None THEN {us[assignee].telegram_id} ELSE {}]

\* The branch with its two checks in the other order.
RaiseDispute_lock_first(us, user, task, task_data) ==
    LET creator == UserById(us, task.creator_id)
    IN  IF task.is_locked
        THEN [code |-> 400, task |-> task, notify |-> {}]
        ELSE IF task.assignee_id # user
        THEN [code |-> 403, task |-> task, notify |-> {}]
        ELSE [code |-> 200,
              task |-> [task EXCEPT !.status = DISPUTED,
                                    !.dispute_reason = task_data.dispute_reason],
              notify |-> IF creator # None THEN {us[creator].telegram_id} ELSE {}]

\* The branch without the check of the lock.
RaiseDispute_no_lock(us, user, task, task_data) ==
    LET creator == UserById(us, task.creator_id)
    IN  IF task.assignee_id # user
        THEN [code |-> 403, task |-> task, notify |-> {}]
        ELSE [code |-> 200,
              task |-> [task EXCEPT !.status = DISPUTED,
                                    !.dispute_reason = task_data.dispute_reason],
              notify |-> IF creator # None THEN {us[creator].telegram_id} ELSE {}]

\* update_task, the branch of a requested status disputed
RaiseDispute(us, user, task, task_data) ==
    LET creator == UserById(us, task.creator_id)
    IN  IF task.assignee_id # user
        THEN [code |-> 403, task |-> task, notify |-> {}]
        ELSE IF task.is_locked
        THEN [code |-> 400, task |-> task, notify |-> {}]
        ELSE [code |-> 200,
              task |-> [task EXCEPT !.status = DISPUTED,
                                    !.dispute_reason = task_data.dispute_reason],
              notify |-> IF creator # None THEN {us[creator].telegram_id} ELSE {}]

\* The branch locking the task whatever the ruling.
ResolveDispute_always_lock(us, user, task, task_data) ==
    LET assignee == UserById(us, task.assignee_id)
        is_owner == us[user].role = OWNER
    IN  IF ~is_owner
        THEN [code |-> 403, task |-> task, notify |-> {}]
        ELSE [code |-> 200,
              task |-> [task EXCEPT !.status = task_data.status,
                                    !.dispute_reason = NULL,
                                    !.is_locked = TRUE],
              notify |-> IF assignee # None THEN {us[assignee].telegram_id} ELSE {}]

\* update_task, the branch of a disputed task and a requested status
ResolveDispute(us, user, task, task_data) ==
    LET assignee == UserById(us, task.assignee_id)
        is_owner == us[user].role = OWNER
    IN  IF ~is_owner
        THEN [code |-> 403, task |-> task, notify |-> {}]
        ELSE [code |-> 200,
              task |-> [task EXCEPT !.status = task_data.status,
                                    !.dispute_reason = NULL,
                                    !.is_locked =
                                        IF task_data.status # DONE THEN TRUE ELSE @],
              notify |-> IF assignee # None THEN {us[assignee].telegram_id} ELSE {}]

\* setattr(task, k, v) for every supplied field k but dispute_reason
SetSupplied(task, task_data) ==
    [task EXCEPT
        !.status = IF "status" \in task_data.set THEN task_data.status ELSE @,
        !.title = IF "title" \in task_data.set THEN task_data.title ELSE @,
        !.description =
            IF "description" \in task_data.set THEN task_data.description ELSE @,
        !.deadline = IF "deadline" \in task_data.set THEN task_data.deadline ELSE @]

\* The branch applying every supplied field for a worker too.
StandardUpdate_all_fields(us, user, task, task_data) ==
    IF us[user].role = WORKER /\ task.assignee_id # user
    THEN [code |-> 403, task |-> task, notify |-> {}]
    ELSE [code |-> 200, task |-> SetSupplied(task, task_data), notify |-> {}]

\* update_task, the branch "Standard Update"
StandardUpdate(us, user, task, task_data) ==
    LET creator == UserById(us, task.creator_id)
    IN  IF us[user].role = WORKER
        THEN IF task.assignee_id # user
             THEN [code |-> 403, task |-> task, notify |-> {}]
             ELSE IF task_data.status # NULL
             THEN [code |-> 200, task |-> [task EXCEPT !.status = task_data.status],
                   notify |-> IF task_data.status = DONE /\ creator # None
                              THEN {us[creator].telegram_id} ELSE {}]
             ELSE [code |-> 200, task |-> task, notify |-> {}]
        ELSE [code |-> 200, task |-> SetSupplied(task, task_data), notify |-> {}]

\* update_task from is_owner to the end of the branches: the outcome and the
\* task object as the session holds it.
\* The variant that looks at the resolve branch before the dispute raise.
Rules_resolve_first(us, user, task, task_data) ==
    IF task.status = DISPUTED /\ task_data.status # NULL
    THEN ResolveDispute(us, user, task, task_data)
    ELSE IF task_data.status = DISPUTED
    THEN RaiseDispute(us, user, task, task_data)
    ELSE StandardUpdate(us, user, task, task_data)

Rules(us, user, task, task_data) ==
    IF task_data.status = DISPUTED
    THEN RaiseDispute(us, user, task, task_data)
    ELSE IF task.status = DISPUTED /\ task_data.status # NULL
    THEN ResolveDispute(us, user, task, task_data)
    ELSE StandardUpdate(us, user, task, task_data)

\* The handler writing the requested status through before the checks.
update_task_write_first(us, ts, task_id, task_data, init_data) ==
    LET v == validate_telegram_data(init_data, BOT_TOKEN)
        user == UserByTelegramId(us, v.user.id)
        task == TaskById(ts, task_id)
        r == Rules(us, user, ts[task], task_data)
        written == [ts EXCEPT ![task].status =
                        IF task_data.status # NULL THEN task_data.status ELSE @]
    IN  IF ~v.ok
        THEN [code |-> 403, detail |-> "Auth failed", tasks |-> ts, notify |-> {}]
        ELSE IF task = None
        THEN [code |-> 404, detail |-> NULL, tasks |-> ts, notify |-> {}]
        ELSE IF user = None
        THEN [code |-> 500, detail |-> NULL, tasks |-> ts, notify |-> {}]
        ELSE IF r.code # 200
        THEN [code |-> r.code, detail |-> NULL, tasks |-> written, notify |-> r.notify]
        ELSE IF r.task.title = NULL
        THEN [code |-> 500, detail |-> NULL, tasks |-> ts, notify |-> r.notify]
        ELSE [code |-> 200, detail |-> NULL,
              tasks |-> [ts EXCEPT ![task] = r.task], notify |-> r.notify]

\* PATCH /api/tasks/{task_id}: the tasks table after the request and the
\* response. The session is committed only when no branch raised; tasks.title
\* is NOT NULL, so a commit of a null title fails and persists nothing.
update_task(us, ts, task_id, task_data, init_data) ==
    LET v == validate_telegram_data(init_data, BOT_TOKEN)
        user == UserByTelegramId(us, v.user.id)
        task == TaskById(ts, task_id)
        r == Rules(us, user, ts[task], task_data)
    IN  IF ~v.ok
        THEN [code |-> 403, detail |-> "Auth failed", tasks |-> ts, notify |-> {}]
        ELSE IF task = None
        THEN [code |-> 404, detail |-> NULL, tasks |-> ts, notify |-> {}]
        ELSE IF user = None
        THEN [code |-> 500, detail |-> NULL, tasks |-> ts, notify |-> {}]
        ELSE IF r.code # 200
        THEN [code |-> r.code, detail |-> NULL, tasks |-> ts, notify |-> r.notify]
        ELSE IF r.task.title = NULL
        THEN [code |-> 500, detail |-> NULL, tasks |-> ts, notify |-> r.notify]
        ELSE [code |-> 200, detail |-> NULL,
              tasks |-> [ts EXCEPT ![task] = r.task], notify |-> r.notify]

\* order_by(Task.deadline.asc()): the ids of S by ascending deadline, rows of
\* equal deadline in id order.
RECURSIVE OrderByDeadline(_, _)
OrderByDeadline(ts, S) ==
    IF S = {} THEN <<>>
    ELSE LET first == CHOOSE i \in S : \A j \in S :
                          \/ ts[i].deadline < ts[j].deadline
                          \/ ts[i].deadline = ts[j].deadline /\ i <= j
         IN  <<first>> \o OrderByDeadline(ts, S \ {first})

\* One element of the list GET /api/tasks returns.
TaskRow(us, ts, user, id) ==
    LET t == ts[id]
        assignee == UserById(us, t.assignee_id)
    IN  [id |-> id, title |-> t.title, description |-> t.description,
         status |-> t.status, deadline |-> t.deadline,
         assignee_name |-> IF assignee # None THEN us[assignee].full_name
                           ELSE "Unknown",
         is_mine |-> t.assignee_id = user, is_locked |-> t.is_locked,
         dispute_reason |-> IF us[user].role # WORKER \/ t.assignee_id = user
                            THEN t.dispute_reason ELSE NULL]

\* The handler restricting the list only on filter=mine.
get_tasks_filter_only(us, ts, filter, init_data) ==
    LET v == validate_telegram_data(init_data, BOT_TOKEN)
        user == UserByTelegramId(us, v.user.id)
        selected ==
            IF filter = "mine"
            THEN {i \in DOMAIN ts : ts[i].assignee_id = user}
            ELSE DOMAIN ts
        order == OrderByDeadline(ts, selected)
    IN  IF ~v.ok
        THEN [code |-> 403, detail |-> "Auth failed", body |-> <<>>]
        ELSE IF user = None
        THEN [code |-> 500, detail |-> NULL, body |-> <<>>]
        ELSE [code |-> 200, detail |-> NULL,
              body |-> [k \in DOMAIN order |-> TaskRow(us, ts, user, order[k])]]

\* GET /api/tasks; filter is the value of the query parameter, NULL if absent.
get_tasks(us, ts, filter, init_data) ==
    LET v == validate_telegram_data(init_data, BOT_TOKEN)
        user == UserByTelegramId(us, v.user.id)
        selected ==
            IF us[user].role = WORKER \/ filter = "mine"
            THEN {i \in DOMAIN ts : ts[i].assignee_id = user}
            ELSE DOMAIN ts
        order == OrderByDeadline(ts, selected)
    IN  IF ~v.ok
        THEN [code |-> 403, detail |-> "Auth failed", body |-> <<>>]
        ELSE IF user = None
        THEN [code |-> 500, detail |-> NULL, body |-> <<>>]
        ELSE [code |-> 200, detail |-> NULL,
              body |-> [k \in DOMAIN order |-> TaskRow(us, ts, user, order[k])]]

(***************************************************************************)
(* main.py: announcements and notifications                                *)
(***************************************************************************)
Announcement(content, author_name) ==
    [content |-> content, author_name |-> author_name]

AnnouncementCreate(content) == [content |-> content]

\* POST /api/announcements: the announcements table after the request, the
\* response, and the text handed to broadcast_notify (NULL: no broadcast).
\* A requester without a row in users makes user.role raise: 500.
create_announcement(us, an, data, init_data) ==
    LET v == validate_telegram_data(init_data, BOT_TOKEN)
        user == UserByTelegramId(us, v.user.id)
        same == [announcements |-> an, broadcast |-> NULL]
    IN  IF ~v.ok
        THEN [code |-> 403, detail |-> "Auth failed"] @@ same
        ELSE IF user = None
        THEN [code |-> 500, detail |-> NULL] @@ same
        ELSE IF us[user].role \notin {ADMIN, OWNER}
        THEN [code |-> 403, detail |-> NULL] @@ same
        ELSE [code |-> 200, detail |-> NULL,
              announcements |->
                  Append(an, Announcement(data.content, us[user].full_name)),
              broadcast |-> data.content]

\* The coroutines handed to the event loop with asyncio.create_task.  A send
\* is "ready" until the loop runs it and "started" once bot.send_message has
\* been called; `by` names what spawned it.
ByPatch(s) == <<"update_task", s>>
ByAnnouncement(id) == <<"create_announcement", id>>
SendTask(to, by, st) == [kind |-> "send", to |-> to, by |-> by, st |-> st]
BroadcastTask(by) == [kind |-> "broadcast", to |-> None, by |-> by, st |-> "ready"]

\* broadcast_notify: one send_notify task per telegram_id in users.
broadcast_notify(us, by) ==
    {SendTask(us[i].telegram_id, by, "ready") : i \in DOMAIN us}

\* The variant that awaits the sends one after the other without catching
\* their exceptions: a failed send ends the loop over the recipients.
send_notify_propagates(tasks_in_loop, s, delivered) ==
    IF delivered
    THEN tasks_in_loop \ {s}
    ELSE {t \in tasks_in_loop : t.kind # "send" \/ t.by # s.by}

\* send_notify once bot.send_message returned or raised: the exception is
\* swallowed, the task ends, the other tasks of the loop are untouched.
send_notify(tasks_in_loop, s, delivered) == tasks_in_loop \ {s}

(***************************************************************************)
(* The inputs of the requests                                              *)
(***************************************************************************)
\* The tokens requests carry: one properly signed per identity and name, one
\* signed with another secret, one without hash, one signed without user.
GoodTokens(ids, names) == {Signed(TgUser(i, n), BOT_TOKEN) : i \in ids, n \in names}
BadTokens ==
    { Signed(TgUser(OWNER_ID, "Ann"), "other-token"),
      InitData({"user"}, TgUser(OWNER_ID, "Ann"), <<>>),
      InitData({"hash"}, TgUser(None, NULL),
               hmac(hmac("WebAppData", BOT_TOKEN), <<>>)) }
Tokens == GoodTokens(TgIds, Names) \cup BadTokens
\* Handlers other than auth_user read only the id of the claim.
HeaderTokens == GoodTokens(TgIds, {"Ann"}) \cup BadTokens
\* The headers the steps send: every identity's token and a forged one.
SentTokens ==
    GoodTokens(TgIds, {"Ann"}) \cup {Signed(TgUser(OWNER_ID, "Ann"), "other-token")}

\* The user row a token resolves to, None for a rejected token or no row.
Requester(us, init_data) ==
    LET v == validate_telegram_data(init_data, BOT_TOKEN)
    IN  IF v.ok THEN UserByTelegramId(us, v.user.id) ELSE None

\* Ids are whatever the client sends: the ids of the table and one more.
UserIds == 1..(MaxTgId + 1)
TaskIds == 1..(MaxTasks + 1)

TaskCreates == {TaskCreate("T1", "", a, NoDeadline) : a \in UserIds}

StatusInputs ==
    {<<{}, NULL>>, <<{"status"}, NULL>>}
        \cup {<<{"status"}, st>> : st \in TaskStatus}
OtherInputs ==
    {<<{}, NULL, NULL, NoDeadline>>,
     <<{"title"}, NULL, NULL, NoDeadline>>,
     <<{"title", "description", "deadline"}, "T2", "d", 1>>}
ReasonInputs == {<<{}, NULL>>, <<{"dispute_reason"}, "blocked">>}

TaskUpdates ==
    {TaskUpdate(s[1] \cup o[1] \cup r[1], s[2], o[2], o[3], o[4], r[2]) :
        s \in StatusInputs, o \in OtherInputs, r \in ReasonInputs}

\* No request is suspended: every slot of inflight is free.
MaxInflight == 2
Slots == 1..MaxInflight
Free == [pc |-> "free"]
Idle == [s \in Slots |-> Free]

Init ==
    /\ users = <<>>
    /\ tasks = <<>>
    /\ response = Response("none", 0)
    /\ announcements = <<>>
    /\ inflight = Idle
    /\ loop = {}

(***************************************************************************)
(* Actions: one per handler                                                *)
(***************************************************************************)
AuthUser(data) ==
    LET r == auth_user(users, data)
    IN  /\ users' = r.users
        /\ response' = Response("auth_user", r.code)
        /\ UNCHANGED <<tasks, announcements, inflight, loop>>

CmdStart(from_id, from_full_name) ==
    /\ users' = cmd_start(users, from_id, from_full_name)
    /\ response' = Response("cmd_start", 200)
    /\ UNCHANGED <<tasks, announcements, inflight, loop>>

UpdateUserRole(user_id, role_data, init_data) ==
    LET r == update_user_role(users, user_id, role_data, init_data)
    IN  /\ users' = r.users
        /\ response' = Response("update_user_role", r.code)
        /\ UNCHANGED <<tasks, announcements, inflight, loop>>

CreateTask(task_data, init_data) ==
    LET r == create_task(users, tasks, task_data, init_data)
    IN  /\ tasks' = r.tasks
        /\ response' = Response("create_task", r.code)
        /\ UNCHANGED <<users, announcements, inflight, loop>>

UpdateTask(task_id, task_data, init_data) ==
    LET r == update_task(users, tasks, task_id, task_data, init_data)
    IN  /\ tasks' = r.tasks
        /\ response' = Response("update_task", r.code)
        /\ UNCHANGED <<users, announcements, inflight, loop>>

GetTasks(filter, init_data) ==
    LET r == get_tasks(users, tasks, filter, init_data)
    IN  /\ response' = Response("get_tasks", r.code)
        /\ UNCHANGED <<users, tasks, announcements, inflight, loop>>

\* The handlers of users and tasks, each one atomic step; sign-ins and start
\* commands all carry the name "Ann".  Announcements are in SpecBroadcast.
Next ==
    \/ \E data \in SentTokens : AuthUser(data)
    \/ \E i \in TgIds : CmdStart(i, "Ann")
    \/ \E id \in UserIds, role \in UserRole, t \in SentTokens :
            UpdateUserRole(id, role, t)
    \/ \E c \in TaskCreates, t \in SentTokens :
            Len(tasks) < MaxTasks /\ CreateTask(c, t)
    \/ \E id \in TaskIds, u \in TaskUpdates, t \in SentTokens :
            UpdateTask(id, u, t)
    \/ \E f \in {NULL, "mine"}, t \in SentTokens : GetTasks(f, t)

Spec == Init /\ [][Next]_vars

\* The operations on users alone, with every token and name.
NextUsers ==
    \/ \E data \in Tokens : AuthUser(data)
    \/ \E i \in TgIds, n \in Names : CmdStart(i, n)
    \/ \E id \in UserIds, role \in UserRole, t \in HeaderTokens :
            UpdateUserRole(id, role, t)

SpecUsers == Init /\ [][NextUsers]_vars

(***************************************************************************)
(* Claims on the task lifecycle and on roles                               *)
(***************************************************************************)
\* C1: a PATCH by a registered requester that asks for status disputed on an
\* existing task is answered 403 and changes nothing when the requester is
\* not the assignee (whatever the role and the lock), 400 and changes nothing
\* when the assignee asks on a locked task, and otherwise sets status disputed
\* and dispute_reason to the supplied text.
DisputeRaiseDecided ==
    \A t \in HeaderTokens, id \in DOMAIN tasks, u \in TaskUpdates :
        LET user == Requester(users, t)
            r == update_task(users, tasks, id, u, t)
        IN  (user # None /\ u.status = DISPUTED) =>
                IF tasks[id].assignee_id # user
                THEN r.code = 403 /\ r.tasks = tasks
                ELSE IF tasks[id].is_locked
                THEN r.code = 400 /\ r.tasks = tasks
                ELSE /\ r.code = 200
                     /\ r.tasks[id].status = DISPUTED
                     /\ r.tasks[id].dispute_reason = u.dispute_reason

\* The assignee's dispute on a locked task has just been answered 400.
DisputeRefusedOnLocked ==
    /\ response = Response("update_task", 400)
    /\ \E id \in DOMAIN tasks : tasks[id].is_locked

\* C2 as stated: an owner's PATCH with any requested status on a disputed task
\* sets the status, clears dispute_reason and locks the task unless the
\* requested status is done.
ResolveWithAnyStatus ==
    \A t \in HeaderTokens, id \in DOMAIN tasks, u \in TaskUpdates :
        LET user == Requester(users, t)
            r == update_task(users, tasks, id, u, t)
        IN  ( /\ user # None
              /\ users[user].role = OWNER
              /\ tasks[id].status = DISPUTED
              /\ u.status # NULL ) =>
                /\ r.code = 200
                /\ r.tasks[id].status = u.status
                /\ r.tasks[id].dispute_reason = NULL
                /\ r.tasks[id].is_locked =
                       (IF u.status # DONE THEN TRUE ELSE tasks[id].is_locked)

\* C2 amended: the same for every requested status other than disputed (a
\* requested status disputed is a dispute raise, decided first).
ResolveDecided ==
    \A t \in HeaderTokens, id \in DOMAIN tasks, u \in TaskUpdates :
        LET user == Requester(users, t)
            r == update_task(users, tasks, id, u, t)
        IN  ( /\ user # None
              /\ users[user].role = OWNER
              /\ tasks[id].status = DISPUTED
              /\ u.status \notin {NULL, DISPUTED} ) =>
                /\ r.code = 200
                /\ r.tasks[id].status = u.status
                /\ r.tasks[id].dispute_reason = NULL
                /\ r.tasks[id].is_locked =
                       (IF u.status # DONE THEN TRUE ELSE tasks[id].is_locked)

\* A dispute has just been resolved against the assignee.
ResolvedAndLocked ==
    /\ response = Response("update_task", 200)
    /\ \E id \in DOMAIN tasks :
            /\ tasks[id].is_locked
            /\ tasks[id].status = TODO
            /\ tasks[id].dispute_reason = NULL

\* C3: a locked task stays locked in every step, and in every state the
\* assignee's request for status disputed on a locked task is answered 400
\* and changes nothing.
LockKept ==
    \A id \in DOMAIN tasks :
        tasks[id].is_locked => (id \in DOMAIN tasks' /\ tasks'[id].is_locked)

LockedDisputeRefused ==
    \A t \in HeaderTokens, id \in DOMAIN tasks, u \in TaskUpdates :
        ( /\ tasks[id].is_locked
          /\ u.status = DISPUTED
          /\ Requester(users, t) # None
          /\ Requester(users, t) = tasks[id].assignee_id ) =>
            /\ update_task(users, tasks, id, u, t).code = 400
            /\ update_task(users, tasks, id, u, t).tasks = tasks

LockPermanent == [][LockKept]_vars /\ []LockedDisputeRefused

\* Resolved to in_progress and locked, the assignee's next dispute is refused.
SecondDisputeRefused ==
    /\ response = Response("update_task", 400)
    /\ \E id \in DOMAIN tasks :
            /\ tasks[id].is_locked
            /\ tasks[id].status = IN_PROGRESS
            /\ tasks[id].assignee_id \in DOMAIN users

\* C4 as stated: a PATCH by a worker on a task assigned to them is accepted
\* and leaves title, description, deadline, is_locked and, outside a dispute
\* raise, dispute_reason as they were.
WorkerPatchAccepted ==
    \A t \in HeaderTokens, id \in DOMAIN tasks, u \in TaskUpdates :
        LET user == Requester(users, t)
            r == update_task(users, tasks, id, u, t)
        IN  ( /\ user # None
              /\ users[user].role = WORKER
              /\ tasks[id].assignee_id = user ) =>
                /\ r.code = 200
                /\ r.tasks[id].title = tasks[id].title
                /\ r.tasks[id].description = tasks[id].description
                /\ r.tasks[id].deadline = tasks[id].deadline
                /\ r.tasks[id].is_locked = tasks[id].is_locked
                /\ u.status # DISPUTED =>
                        r.tasks[id].dispute_reason = tasks[id].dispute_reason

\* C4 amended: such a PATCH changes at most status (and dispute_reason in a
\* dispute raise) of that task and nothing else in the table; it is accepted
\* unless it asks for disputed on a locked task (400) or asks for another
\* status while the task is disputed (403), and then it changes nothing.
WorkerPatchFrame ==
    \A t \in HeaderTokens, id \in DOMAIN tasks, u \in TaskUpdates :
        LET user == Requester(users, t)
            r == update_task(users, tasks, id, u, t)
        IN  ( /\ user # None
              /\ users[user].role = WORKER
              /\ tasks[id].assignee_id = user ) =>
                /\ r.code =
                       (IF u.status = DISPUTED /\ tasks[id].is_locked THEN 400
                        ELSE IF tasks[id].status = DISPUTED
                                /\ u.status \notin {NULL, DISPUTED} THEN 403
                        ELSE 200)
                /\ r.code # 200 => r.tasks = tasks
                /\ r.tasks =
                       [tasks EXCEPT ![id] =
                           [@ EXCEPT !.status = r.tasks[id].status,
                                     !.dispute_reason =
                                         IF u.status = DISPUTED
                                         THEN r.tasks[id].dispute_reason ELSE @]]
                /\ (r.code = 200 /\ u.status # NULL) =>
                        r.tasks[id].status = u.status

\* A worker has just disputed their own task; its title is the one it was
\* created with.
WorkerDisputedOwnTask ==
    /\ response = Response("update_task", 200)
    /\ \E id \in DOMAIN tasks :
            /\ tasks[id].status = DISPUTED
            /\ tasks[id].dispute_reason = "blocked"
            /\ tasks[id].assignee_id \in DOMAIN users
            /\ users[tasks[id].assignee_id].role = WORKER
            /\ tasks[id].title = "T1"

\* C5: a PATCH answered 404, 403 or 400 leaves the tasks table as it was.
RejectedPatchChangesNothing ==
    \A t \in HeaderTokens, id \in TaskIds, u \in TaskUpdates :
        LET r == update_task(users, tasks, id, u, t)
        IN  r.code \in {404, 403, 400} => r.tasks = tasks

\* A PATCH on a task that exists has just been answered 403.
PatchForbidden ==
    /\ response = Response("update_task", 403)
    /\ tasks # <<>>
    /\ users # <<>>

(***************************************************************************)
(* Users                                                                   *)
(***************************************************************************)
\* C6: the user of the configured owner identity, if it exists, has role
\* owner, and no role change aimed at it succeeds.
OwnerIdentityIsOwner ==
    /\ \A i \in DOMAIN users :
            users[i].telegram_id = OWNER_ID => users[i].role = OWNER
    /\ \A t \in HeaderTokens, id \in DOMAIN users, role \in UserRole :
            users[id].telegram_id = OWNER_ID =>
                update_user_role(users, id, role, t).code # 200

\* A role change aimed at the configured owner has just been refused.
OwnerRoleChangeRefused ==
    /\ response = Response("update_user_role", 400)
    /\ \E i, j \in DOMAIN users :
            /\ users[i].telegram_id = OWNER_ID
            /\ users[i].role = OWNER
            /\ users[j].role = ADMIN

\* C7: a role change by an acting user with role owner aimed at an existing
\* user other than the configured owner succeeds and persists the role; by an
\* acting user of another role it is answered 403; by an owner aimed at a
\* missing user or at the configured owner it is answered 400; a refused
\* change leaves every role as it was.
SetRoleByActingRole ==
    \A t \in HeaderTokens, id \in UserIds, role \in UserRole :
        LET acting == Requester(users, t)
            r == update_user_role(users, id, role, t)
            valid == id \in DOMAIN users /\ users[id].telegram_id # OWNER_ID
        IN  acting # None =>
                IF users[acting].role # OWNER
                THEN r.code = 403 /\ r.users = users
                ELSE IF ~valid
                THEN r.code = 400 /\ r.users = users
                ELSE r.code = 200 /\ r.users = [users EXCEPT ![id].role = role]

(***************************************************************************)
(* Data model                                                              *)
(***************************************************************************)
\* C8: a task has a dispute_reason if and only if its status is disputed.
ReasonIffDisputed ==
    \A id \in DOMAIN tasks :
        (tasks[id].status = DISPUTED) <=> (tasks[id].dispute_reason \notin {NULL, ""})

\* C9: the creator and the assignee of every task are rows of users.
TaskUsersExist ==
    \A id \in DOMAIN tasks :
        /\ tasks[id].creator_id \in DOMAIN users
        /\ tasks[id].assignee_id \in DOMAIN users

(***************************************************************************)
(* Listing tasks: three registered users (an owner, a worker and a user    *)
(* the owner made admin), tasks created, disputed and listed.              *)
(***************************************************************************)
MaxListTasks == 2

ListUsers == <<User(1, "Ann", OWNER), User(2, "Bob", WORKER), User(3, "Ann", ADMIN)>>
ListTokens ==
    GoodTokens(1..(Len(ListUsers) + 1), {"Ann"})
        \cup {Signed(TgUser(OWNER_ID, "Ann"), "other-token")}
ListCreates ==
    {TaskCreate("T1", "", a, d) : a \in 1..(Len(ListUsers) + 1), d \in {NoDeadline, 1}}
\* Tasks are created by the owner (and refused to the worker); the one update
\* sent is a dispute raise.
ListCreators == GoodTokens({1, 2}, {"Ann"})
ListUpdates ==
    {TaskUpdate({"status", "dispute_reason"}, DISPUTED, NULL, NULL, NoDeadline, "blocked")}

InitList ==
    /\ users = ListUsers
    /\ tasks = <<>>
    /\ response = Response("none", 0)
    /\ announcements = <<>>
    /\ inflight = Idle
    /\ loop = {}

NextList ==
    \/ \E c \in ListCreates, t \in ListCreators :
            Len(tasks) < MaxListTasks /\ CreateTask(c, t)
    \/ \E id \in 1..(MaxListTasks + 1), u \in ListUpdates, t \in ListTokens :
            UpdateTask(id, u, t)
    \/ \E f \in {NULL, "mine"}, t \in ListTokens : GetTasks(f, t)

SpecList == InitList /\ [][NextList]_vars

\* The ids of the rows of a list, in order.
RowIds(body) == {body[k].id : k \in DOMAIN body}

\* C10: GET /api/tasks by a worker returns exactly the tasks assigned to that
\* worker, with or without filter=mine, each once and with is_mine true; by a
\* user of another role without filter=mine it returns every task; and
\* dispute_reason is withheld (null in the list though the task has one) for
\* no row but one a worker sees of a task not assigned to them.
ListDecided ==
    \A t \in ListTokens, f \in {NULL, "mine"} :
        LET user == Requester(users, t)
            r == get_tasks(users, tasks, f, t)
            mine == {id \in DOMAIN tasks : tasks[id].assignee_id = user}
        IN  user # None =>
                /\ r.code = 200
                /\ Len(r.body) = Cardinality(RowIds(r.body))
                /\ users[user].role = WORKER =>
                        /\ RowIds(r.body) = mine
                        /\ \A k \in DOMAIN r.body : r.body[k].is_mine
                /\ (users[user].role # WORKER /\ f = NULL) =>
                        RowIds(r.body) = DOMAIN tasks
                /\ \A k \in DOMAIN r.body :
                        r.body[k].dispute_reason # tasks[r.body[k].id].dispute_reason
                            => ( /\ users[user].role = WORKER
                                 /\ tasks[r.body[k].id].assignee_id # user )

\* A list has just been returned while a worker has one of two tasks, and the
\* other task carries a dispute reason.
WorkerHasOneOfTwo ==
    /\ response = Response("get_tasks", 200)
    /\ \E w \in DOMAIN users, a, b \in DOMAIN tasks :
            /\ users[w].role = WORKER
            /\ tasks[a].assignee_id = w
            /\ tasks[b].assignee_id # w
            /\ tasks[b].dispute_reason # NULL

(***************************************************************************)
(* Identity verification                                                   *)
(***************************************************************************)
AuthFailed(r) == r.code = 403 /\ r.detail = "Auth failed"

\* C12: a token without a signature field, with a signature that does not
\* match, or with a matching signature but no user claim is answered by every
\* handler with the same 403 "Auth failed" and leaves users, tasks and
\* announcements as they were; validation yields a claim only for a token
\* whose signature matches, and then the claim the token embeds.
AuthFailsUniformly ==
    /\ \A t \in BadTokens :
          /\ ~validate_telegram_data(t, BOT_TOKEN).ok
          /\ LET r == auth_user(users, t)
             IN  AuthFailed(r) /\ r.users = users
          /\ \A id \in UserIds, role \in UserRole :
                LET r == update_user_role(users, id, role, t)
                IN  AuthFailed(r) /\ r.users = users
          /\ \A f \in {NULL, "mine"} : AuthFailed(get_tasks(users, tasks, f, t))
          /\ \A c \in TaskCreates :
                LET r == create_task(users, tasks, c, t)
                IN  AuthFailed(r) /\ r.tasks = tasks /\ r.notify = {}
          /\ \A id \in TaskIds, u \in TaskUpdates :
                LET r == update_task(users, tasks, id, u, t)
                IN  AuthFailed(r) /\ r.tasks = tasks /\ r.notify = {}
          /\ LET r == create_announcement(users, announcements,
                                          AnnouncementCreate("news"), t)
             IN  AuthFailed(r) /\ r.announcements = announcements
                               /\ r.broadcast = NULL
    /\ \A t \in Tokens :
          LET v == validate_telegram_data(t, BOT_TOKEN)
          IN  v.ok <=> /\ {"hash", "user"} \subseteq t.keys
                       /\ t.hash = hmac(hmac("WebAppData", BOT_TOKEN),
                                        data_check_string(t))
    /\ \A i \in TgIds, n \in Names :
          validate_telegram_data(Signed(TgUser(i, n), BOT_TOKEN), BOT_TOKEN)
              = [ok |-> TRUE, user |-> TgUser(i, n)]

\* A sign-in with a forged token was refused while users and a task exist.
ForgedSignInRefused ==
    /\ response = Response("auth_user", 403)
    /\ Len(users) > 0
    /\ Len(tasks) > 0

(***************************************************************************)
(* Status values and the way out of disputed                               *)
(***************************************************************************)
\* C13: no PATCH sent by a registered user whose role is admin or worker,
\* whatever fields it carries (an explicitly null status included), changes
\* the status of a task that is disputed.
DisputedLeftOnlyByOwner ==
    \A id \in DOMAIN tasks, u \in TaskUpdates, t \in SentTokens :
        LET user == Requester(users, t)
            r == update_task(users, tasks, id, u, t)
        IN  (/\ tasks[id].status = DISPUTED
             /\ user # None
             /\ users[user].role \in {ADMIN, WORKER})
            => r.tasks[id].status = DISPUTED

\* C14: the status of every stored task is one of todo, in_progress, done
\* and disputed.
StatusInDomain ==
    \A id \in DOMAIN tasks : tasks[id].status \in TaskStatus

(***************************************************************************)
(* The lock and the status disputed, requests handled one at a time        *)
(***************************************************************************)
LockedNotDisputed ==
    \A id \in DOMAIN tasks : tasks[id].is_locked => tasks[id].status # DISPUTED

\* What a PATCH can do to a task: it enters disputed only as a dispute raise
\* by the assignee on an unlocked task, and it sets the lock only while
\* taking the task out of disputed.
DisputeAndLockEntries ==
    \A id \in DOMAIN tasks, u \in TaskUpdates, t \in SentTokens :
        LET user == Requester(users, t)
            old == tasks[id]
            new == update_task(users, tasks, id, u, t).tasks[id]
        IN  /\ (new.status = DISPUTED /\ old.status # DISPUTED)
                  => /\ u.status = DISPUTED
                     /\ user # None /\ old.assignee_id = user
                     /\ ~old.is_locked
            /\ (new.is_locked /\ ~old.is_locked)
                  => old.status = DISPUTED /\ new.status # DISPUTED

\* Between two states a task enters disputed or gets locked only in a PATCH,
\* and a task is created unlocked and not disputed.
DisputeAndLockSteps ==
    /\ \A id \in DOMAIN tasks :
          (\/ tasks'[id].status = DISPUTED /\ tasks[id].status # DISPUTED
           \/ tasks'[id].is_locked /\ ~tasks[id].is_locked)
          => response'.op = "update_task" /\ response'.code = 200
    /\ \A id \in DOMAIN tasks' \ DOMAIN tasks :
          ~tasks'[id].is_locked /\ tasks'[id].status # DISPUTED

\* C15: with the requests applied one at a time a locked task is never
\* disputed; a task enters disputed only by a dispute raise of its assignee
\* while it is unlocked, and the lock is set only in the step that takes the
\* task out of disputed.
LockExcludesDisputed ==
    /\ [](LockedNotDisputed /\ DisputeAndLockEntries)
    /\ [][DisputeAndLockSteps]_vars

\* A task was ruled on, locked, and later completed.
LockedTaskDone ==
    /\ response = Response("update_task", 200)
    /\ \E id \in DOMAIN tasks : tasks[id].is_locked /\ tasks[id].status = DONE

(***************************************************************************)
(* Requests of an identity that has no row in users                        *)
(***************************************************************************)
\* The failure kinds of a request: Forbidden and AuthenticationFailure
\* (403), NotFound (404), InvalidState and InvalidTarget (400).
DefinedFailure(code) == code \in {400, 403, 404}

\* C18: a task or announcement request with a valid token whose identity has
\* no row in users is answered with a defined failure kind; no role check
\* runs on the absent requester.
AbsentRequesterRefused ==
    \A t \in GoodTokens(TgIds, {"Ann"}) :
        Requester(users, t) = None =>
            /\ \A f \in {NULL, "mine"} :
                  DefinedFailure(get_tasks(users, tasks, f, t).code)
            /\ \A c \in TaskCreates :
                  DefinedFailure(create_task(users, tasks, c, t).code)
            /\ \A id \in TaskIds, u \in TaskUpdates :
                  DefinedFailure(update_task(users, tasks, id, u, t).code)
            /\ DefinedFailure(create_announcement(users, announcements,
                                  AnnouncementCreate("news"), t).code)

(***************************************************************************)
(* The start command against the sign-in                                   *)
(***************************************************************************)
\* C19: for every identity, display name and users table the start command
\* and POST /api/auth leave the same users table.
StartSameAsSignIn ==
    \A i \in TgIds, n \in Names :
        cmd_start(users, i, n)
            = auth_user(users, Signed(TgUser(i, n), BOT_TOKEN)).users

(***************************************************************************)
(* Handlers from await to await.  A request that is suspended at an await  *)
(* occupies a slot of inflight with what it has read so far; other         *)
(* requests and the tasks of the event loop run in between.                *)
(***************************************************************************)
\* session.commit() of a loaded row: the UPDATE carries the attributes whose
\* value differs from the loaded one; the others keep what the table holds.
FlushDirty(row, loaded, new) ==
    [f \in DOMAIN row |-> IF new[f] # loaded[f] THEN new[f] ELSE row[f]]

\* The variant without the unique index on users.telegram_id.
InsertUser_not_unique(us, row) == [ok |-> TRUE, users |-> Append(us, row)]

\* session.add(User(...)) and commit: the unique index on telegram_id makes
\* the INSERT of a second row for an identity fail (IntegrityError).
InsertUser(us, row) ==
    IF \E i \in DOMAIN us : us[i].telegram_id = row.telegram_id
    THEN [ok |-> FALSE, users |-> us]
    ELSE [ok |-> TRUE, users |-> Append(us, row)]

\* auth_user up to the await of the lookup (lines 68-72).
AuthLookup(s, data) ==
    LET v == validate_telegram_data(data, BOT_TOKEN)
        user == UserByTelegramId(users, v.user.id)
    IN  /\ inflight[s] = Free
        /\ IF ~v.ok
           THEN /\ response' = Response("auth_user", 403)
                /\ UNCHANGED inflight
           ELSE /\ inflight' = [inflight EXCEPT ![s] =
                        [pc |-> "auth_user", tg_id |-> v.user.id,
                         full_name |-> v.user.name, user |-> user,
                         loaded |-> IF user = None THEN NULL ELSE users[user]]]
                /\ UNCHANGED response
        /\ UNCHANGED <<users, tasks, announcements, loop>>

\* auth_user from the result of the lookup to the commit (lines 74-83).
AuthCommit(s) ==
    LET q == inflight[s]
        role == IF q.tg_id = OWNER_ID THEN OWNER ELSE WORKER
        new == [q.loaded EXCEPT !.full_name = q.full_name,
                                !.role = IF q.tg_id = OWNER_ID THEN OWNER ELSE @]
        r == IF q.user = None
             THEN InsertUser(users, User(q.tg_id, q.full_name, role))
             ELSE [ok |-> TRUE,
                   users |-> [users EXCEPT ![q.user] = FlushDirty(@, q.loaded, new)]]
    IN  /\ q.pc = "auth_user"
        /\ users' = r.users
        /\ response' = Response("auth_user", IF r.ok THEN 200 ELSE 500)
        /\ inflight' = [inflight EXCEPT ![s] = Free]
        /\ UNCHANGED <<tasks, announcements, loop>>

\* cmd_start up to the await of the lookup (line 197); a returning identity
\* is answered at once.
StartLookup(s, from_id, from_full_name) ==
    /\ inflight[s] = Free
    /\ IF UserByTelegramId(users, from_id) # None
       THEN /\ response' = Response("cmd_start", 200)
            /\ UNCHANGED inflight
       ELSE /\ inflight' = [inflight EXCEPT ![s] =
                    [pc |-> "cmd_start", tg_id |-> from_id,
                     full_name |-> from_full_name]]
            /\ UNCHANGED response
    /\ UNCHANGED <<users, tasks, announcements, loop>>

\* cmd_start from the empty lookup to the commit (lines 198-200).
StartCommit(s) ==
    LET q == inflight[s]
        role == IF q.tg_id = OWNER_ID THEN OWNER ELSE WORKER
        r == InsertUser(users, User(q.tg_id, q.full_name, role))
    IN  /\ q.pc = "cmd_start"
        /\ users' = r.users
        /\ response' = Response("cmd_start", IF r.ok THEN 200 ELSE 500)
        /\ inflight' = [inflight EXCEPT ![s] = Free]
        /\ UNCHANGED <<tasks, announcements, loop>>

\* Sign-ins and start commands, interleaved between lookup and commit.
NextSignIn ==
    \E s \in Slots :
        \/ \E data \in Tokens : AuthLookup(s, data)
        \/ AuthCommit(s)
        \/ \E i \in TgIds, n \in Names : StartLookup(s, i, n)
        \/ StartCommit(s)

SpecSignIn == Init /\ [][NextSignIn]_vars

TelegramIds(us) == {us[i].telegram_id : i \in DOMAIN us}

\* C20: at every moment users holds at most one row per telegram id, also
\* when sign-ins and start commands of one new identity interleave between
\* lookup and insert; no step removes a row, so the set of known telegram ids
\* only grows.
OneUserPerIdentity ==
    /\ [](\A i, j \in DOMAIN users :
            users[i].telegram_id = users[j].telegram_id => i = j)
    /\ [][/\ Len(users') >= Len(users)
          /\ TelegramIds(users) \subseteq TelegramIds(users')]_vars

\* Two operations looked the same new identity up before either inserted it;
\* the insert of the second was refused.
SecondInsertRefused ==
    /\ response.code = 500
    /\ response.op \in {"auth_user", "cmd_start"}
    /\ Len(users) > 0

(***************************************************************************)
(* PATCH /api/tasks/{id} from await to await, with the sends it spawns.    *)
(* Two users have signed in and the owner has created one task for the     *)
(* worker.                                                                 *)
(***************************************************************************)
AsyncUsers == <<User(1, "Ann", OWNER), User(2, "Ann", WORKER)>>
AsyncTasks == <<Task("T1", "", 1, 2, NoDeadline)>>
AsyncTokens == GoodTokens({1, 2}, {"Ann"}) \cup {Signed(TgUser(OWNER_ID, "Ann"), "other-token")}
AsyncUpdates ==
    { TaskUpdate({"status", "dispute_reason"}, DISPUTED, NULL, NULL, NoDeadline, "blocked"),
      TaskUpdate({"status"}, IN_PROGRESS, NULL, NULL, NoDeadline, NULL) }

\* update_task up to the awaits of its queries (lines 138-145): the user and
\* the task as the table holds them now.  A slot is taken again only after
\* the sends of its last request have left the event loop.
PatchLoad(s, task_id, task_data, init_data) ==
    LET v == validate_telegram_data(init_data, BOT_TOKEN)
        user == UserByTelegramId(users, v.user.id)
        task == TaskById(tasks, task_id)
    IN  /\ inflight[s] = Free
        /\ \A t \in loop : t.by # ByPatch(s)
        /\ IF ~v.ok \/ task = None
           THEN /\ response' = Response("update_task", IF ~v.ok THEN 403 ELSE 404)
                /\ UNCHANGED inflight
           ELSE /\ inflight' = [inflight EXCEPT ![s] =
                        [pc |-> "loaded", user |-> user, task_id |-> task,
                         body |-> task_data, loaded |-> tasks[task],
                         new |-> tasks[task]]]
                /\ UNCHANGED response
        /\ UNCHANGED <<users, tasks, announcements, loop>>

\* update_task from the last query to the call of db.commit() (lines
\* 147-173): the rules run on the loaded objects, the send is handed to the
\* event loop, the changed attributes wait for the commit.
PatchRules(s) ==
    LET q == inflight[s]
        r == Rules(users, q.user, q.loaded, q.body)
    IN  /\ q.pc = "loaded"
        /\ IF q.user = None \/ r.code # 200
           THEN /\ response' =
                      Response("update_task", IF q.user = None THEN 500 ELSE r.code)
                /\ inflight' = [inflight EXCEPT ![s] = Free]
                /\ UNCHANGED loop
           ELSE /\ loop' = loop \cup {SendTask(to, ByPatch(s), "ready") : to \in r.notify}
                /\ inflight' = [inflight EXCEPT ![s] =
                                    [q EXCEPT !.pc = "commit", !.new = r.task]]
                /\ UNCHANGED response
        /\ UNCHANGED <<users, tasks, announcements>>

\* The commit of line 173 completes: the UPDATE of the changed attributes.
PatchCommit(s) ==
    LET q == inflight[s]
    IN  /\ q.pc = "commit"
        /\ IF q.new.title = NULL
           THEN /\ response' = Response("update_task", 500)
                /\ UNCHANGED tasks
           ELSE /\ response' = Response("update_task", 200)
                /\ tasks' = [tasks EXCEPT ![q.task_id] =
                                 FlushDirty(@, q.loaded, q.new)]
        /\ inflight' = [inflight EXCEPT ![s] = Free]
        /\ UNCHANGED <<users, announcements, loop>>

\* The event loop runs a send_notify task: bot.send_message is called.
SendStart(t) ==
    /\ t \in loop /\ t.kind = "send" /\ t.st = "ready"
    /\ loop' = (loop \ {t}) \cup {SendTask(t.to, t.by, "started")}
    /\ UNCHANGED <<users, tasks, response, announcements, inflight>>

\* bot.send_message returns (delivered) or raises.
SendDone(t, delivered) ==
    /\ t \in loop /\ t.kind = "send" /\ t.st = "started"
    /\ loop' = send_notify(loop, t, delivered)
    /\ UNCHANGED <<users, tasks, response, announcements, inflight>>

InitAsync ==
    /\ users = AsyncUsers
    /\ tasks = AsyncTasks
    /\ response = Response("none", 0)
    /\ announcements = <<>>
    /\ inflight = Idle
    /\ loop = {}

NextAsync ==
    \/ \E s \in Slots, id \in 1..(Len(AsyncTasks) + 1), u \in AsyncUpdates,
          t \in AsyncTokens : PatchLoad(s, id, u, t)
    \/ \E s \in Slots : PatchRules(s)
    \/ \E s \in Slots : PatchCommit(s)
    \/ \E t \in loop : SendStart(t)
    \/ \E t \in loop, delivered \in BOOLEAN : SendDone(t, delivered)

SpecAsync == InitAsync /\ [][NextAsync]_vars

\* C16: whatever the interleaving of the PATCH requests, a locked task is
\* never disputed and never carries a dispute_reason.
LockSurvivesRaces ==
    \A id \in DOMAIN tasks :
        tasks[id].is_locked =>
            tasks[id].status # DISPUTED /\ tasks[id].dispute_reason = NULL

\* C17: a send spawned by a PATCH has not started while the commit of that
\* PATCH is still to complete.
SendAfterCommit ==
    \A s \in Slots, to \in TgIds :
        SendTask(to, ByPatch(s), "started") \in loop => inflight[s].pc # "commit"

(***************************************************************************)
(* Announcements and their broadcast.  The event loop runs every task that *)
(* is ready: a task created with asyncio.create_task is queued and the     *)
(* loop takes the queue in order.                                          *)
(***************************************************************************)
MaxAnnouncements == 2
AnnouncementIds == 1..MaxAnnouncements

\* POST /api/announcements: the row is committed (line 189), then the
\* broadcast is handed to the event loop (line 192) and the handler returns.
CreateAnnouncement(data, init_data) ==
    LET r == create_announcement(users, announcements, data, init_data)
    IN  /\ announcements' = r.announcements
        /\ response' = Response("create_announcement", r.code)
        /\ loop' = IF r.broadcast = NULL THEN loop
                   ELSE loop \cup {BroadcastTask(ByAnnouncement(Len(r.announcements)))}
        /\ UNCHANGED <<users, tasks, inflight>>

\* The event loop runs broadcast_notify: the telegram ids the table holds
\* now, one send_notify task for each.
BroadcastRun(b) ==
    /\ b \in loop /\ b.kind = "broadcast"
    /\ loop' = (loop \ {b}) \cup broadcast_notify(users, b.by)
    /\ UNCHANGED <<users, tasks, response, announcements, inflight>>

NextBroadcast ==
    \/ \E i \in TgIds : CmdStart(i, "Ann")
    \/ \E t \in SentTokens :
            /\ Len(announcements) < MaxAnnouncements
            /\ CreateAnnouncement(AnnouncementCreate("news"), t)
    \/ \E b \in loop : BroadcastRun(b)
    \/ \E t \in loop : SendStart(t)
    \/ \E t \in loop, delivered \in BOOLEAN : SendDone(t, delivered)

\* Every ready task of the event loop is run; a send that was started may
\* never return.
SpecBroadcast ==
    /\ Init
    /\ [][NextBroadcast]_vars
    /\ \A id \in AnnouncementIds :
          /\ WF_vars(BroadcastRun(BroadcastTask(ByAnnouncement(id))))
          /\ \A to \in TgIds :
                WF_vars(SendStart(SendTask(to, ByAnnouncement(id), "ready")))

\* A stored announcement comes with its broadcast, the broadcast spawns a
\* send for every telegram id the table holds when it runs, and a send that
\* ends, delivered or failed, takes only itself out of the event loop and
\* leaves the tables and the response alone.
BroadcastSteps ==
    /\ Len(announcements') > Len(announcements)
          => /\ response' = Response("create_announcement", 200)
             /\ BroadcastTask(ByAnnouncement(Len(announcements'))) \in loop'
    /\ \A id \in AnnouncementIds :
          LET b == BroadcastTask(ByAnnouncement(id))
          IN  (b \in loop /\ b \notin loop')
                  => \A to \in TelegramIds(users) :
                         SendTask(to, b.by, "ready") \in loop'
    /\ \A t \in loop :
          (t.kind = "send" /\ t.st = "started" /\ t \notin loop')
              => /\ loop' = loop \ {t}
                 /\ UNCHANGED <<users, tasks, response, announcements>>

\* C11: after an accepted POST /api/announcements the broadcast eventually
\* enumerates the users, and a send to every telegram id known at that moment
\* is eventually attempted; a send that fails removes no other send and
\* changes neither the response nor the stored announcement.
BroadcastReachesAll ==
    /\ [][BroadcastSteps]_vars
    /\ \A id \in AnnouncementIds :
          /\ BroadcastTask(ByAnnouncement(id)) \in loop
                ~> BroadcastTask(ByAnnouncement(id)) \notin loop
          /\ \A to \in TgIds :
                SendTask(to, ByAnnouncement(id), "ready") \in loop
                    ~> SendTask(to, ByAnnouncement(id), "started") \in loop

\* Two users were registered when a broadcast ran, and the send to each of
\* them has been attempted.
AllRecipientsAttempted ==
    /\ Len(users) = 2
    /\ \E id \in DOMAIN announcements :
          {t \in loop : t.by = ByAnnouncement(id)}
              = {SendTask(to, ByAnnouncement(id), "started") : to \in TelegramIds(users)}
====
